---- MODULE Spec2Model ----
(***************************************************************************)
(* A model of two operators of the reactive-stream core:                  *)
(*   sequenceEqual  (src/src/operator/sequenceEqual.ts)                   *)
(*   filter         (src/unnamed/part_000)                                *)
(* Every notification a source delivers is one atomic step: the whole     *)
(* synchronous call chain it triggers runs inside that step.              *)
(***************************************************************************)
EXTENDS Integers, Sequences, FiniteSets, TLC

\* ---------------------------------------------------------------- bounds
\* the longest value sequence one source emits before its terminal notification
MaxLen == 3
\* the notifications the sources of two subscriptions side by side deliver, in all
MaxTwo == 4

\* the values a source emits: the operators only test them for equality (and
\* the raising comparator for order), so two distinct values show every case
Values == {1, 2}
\* the error values a source may deliver
ErrVals == {"e1", "e2"}
\* the value a raising comparator or predicate raises
Raised == "raised"
\* the comparor argument of sequenceEqual: absent, a total equality, or one
\* that raises on some pairs
Comparors == {"none", "same", "raises"}
\* what the downstream observer's next handler does: nothing more, or
\* unsubscribe the output subscription reentrantly
Handlers == {"keep", "unsub"}

VARIABLES
  subs,      \* the live sequenceEqual subscriptions: id -> subscriber state
  comparor,  \* SequenceEqualOperator.comparor, shared by every subscription
  flt,       \* the filter subscription
  predicate  \* FilterOperator.predicate

vars == <<subs, comparor, flt, predicate>>

\* ---------------------------------------------------------- notifications
NextN(v) == [kind |-> "next", val |-> v]
ErrorN(e) == [kind |-> "error", err |-> e]
CompleteN == [kind |-> "complete"]

\* ------------------------------------------------------------- comparator
\* The user comparator, as a function of its two arguments: a boolean result
\* or a raise.  "raises" raises when its first argument exceeds its second.
Returns(v) == [raised |-> FALSE, val |-> v]
Raises(e) == [raised |-> TRUE, err |-> e]

Comparor(c, x, y) ==
  IF c = "raises" /\ x > y THEN Raises(Raised) ELSE Returns(x = y)

\* tryCatch(fn)(x, y): the result of the call, or the errorObject sentinel
\* holding the raised value in errorObject.e; nothing escapes to the caller.
tryCatch(r) ==
  IF r.raised THEN [isErrorObject |-> TRUE, e |-> r.err, val |-> FALSE]
  ELSE [isErrorObject |-> FALSE, e |-> "", val |-> r.val]

\* JavaScript truthiness of !areEqual: errorObject is an object, hence truthy
Truthy(r) == r.isErrorObject \/ r.val

\* ------------------------------------------- one sequenceEqual subscription
\* State after `new SequenceEqualSubscriber(...)` has run super(destination)
\* and the field initialisers, and is about to subscribe compareTo.
NewSource == [vals |-> <<>>, term |-> "open"]

NewSubscriber(h) ==
  [ a |-> <<>>, b |-> <<>>, oneComplete |-> FALSE,
    isStopped |-> FALSE, closed |-> FALSE,            \* SequenceEqualSubscriber
    cmpStopped |-> FALSE, cmpClosed |-> FALSE,        \* SequenceEqualCompareToSubscriber
    cmpAdded |-> FALSE,                               \* this.add(...) has run
    destStopped |-> FALSE, destClosed |-> FALSE,      \* the downstream Subscriber
    phase |-> "ctor",
    handler |-> h,
    out |-> <<>>,                                     \* what the observer received
    calls |-> <<>>,                                   \* pairs equality was evaluated on
    srcA |-> NewSource, srcB |-> NewSource,           \* what each source has delivered
    orphan |-> FALSE,     \* a value arrived after the other side completed with an empty buffer
    unsubscribed |-> FALSE,                           \* the consumer has unsubscribed
    runsA |-> 0, runsB |-> 0,     \* runs of _complete() for the primary / for compareTo
    thrown |-> FALSE ]                                \* an exception escaped to a source

\* ---- Subscription / Subscriber protocol of the three subscribers involved

\* SequenceEqualCompareToSubscriber.unsubscribe()
cmpUnsubscribe(s) ==
  IF s.cmpClosed THEN s ELSE [s EXCEPT !.cmpStopped = TRUE, !.cmpClosed = TRUE]

\* SequenceEqualSubscriber.unsubscribe(): closes its children too
unsubscribe(s) ==
  IF s.closed THEN s
  ELSE LET s1 == [s EXCEPT !.isStopped = TRUE, !.closed = TRUE]
       IN IF s1.cmpAdded THEN cmpUnsubscribe(s1) ELSE s1

\* destination.unsubscribe(): both subscribers registered themselves with the
\* destination in their constructors (super(destination))
destUnsubscribe(s) ==
  IF s.destClosed THEN s
  ELSE cmpUnsubscribe(unsubscribe([s EXCEPT !.destStopped = TRUE, !.destClosed = TRUE]))

\* destination.next(value): delivered to the observer, whose handler may
\* unsubscribe reentrantly
destNext(s, v) ==
  IF s.destStopped THEN s
  ELSE LET s1 == [s EXCEPT !.out = Append(@, NextN(v))]
       IN IF s1.handler = "unsub"
          THEN destUnsubscribe([s1 EXCEPT !.unsubscribed = TRUE])
          ELSE s1

\* destination.error(err)
destError(s, e) ==
  IF s.destStopped THEN s
  ELSE destUnsubscribe([s EXCEPT !.destStopped = TRUE, !.out = Append(@, ErrorN(e))])

\* destination.complete()
destComplete(s) ==
  IF s.destStopped THEN s
  ELSE destUnsubscribe([s EXCEPT !.destStopped = TRUE, !.out = Append(@, CompleteN)])

\* ---- SequenceEqualSubscriber

\* (variants of emit: completing before the value; never completing)
emitCompleteFirst(s, value) == destNext(destComplete(s), value)
emitNoComplete(s, value) == destNext(s, value)

emit(s, value) == destComplete(destNext(s, value))

\* (variant of the loop body: the comparator is called without tryCatch, so
\* what it raises escapes to the source that delivered the value)
comparePairUnprotected(s0, x, y) ==
  LET s == [s0 EXCEPT !.calls = Append(@, <<x, y>>)] IN
  IF comparor # "none"
  THEN LET r == Comparor(comparor, x, y)
       IN IF r.raised THEN [s EXCEPT !.thrown = TRUE]
          ELSE IF ~r.val THEN emit(s, FALSE) ELSE s
  ELSE IF ~(x = y) THEN emit(s, FALSE) ELSE s

\* (variant of the loop body: the pair is handed over as (b, a))
comparePairSwapped(s0, x, y) ==
  LET s == [s0 EXCEPT !.calls = Append(@, <<y, x>>)] IN
  IF comparor # "none"
  THEN LET areEqual == tryCatch(Comparor(comparor, y, x))
           s1 == IF areEqual.isErrorObject THEN destError(s, areEqual.e) ELSE s
       IN IF ~Truthy(areEqual) THEN emit(s1, FALSE) ELSE s1
  ELSE IF ~(y = x) THEN emit(s, FALSE) ELSE s

\* the body of the while loop of checkValues, after the two shifts: one
\* evaluation of equality on the pair (x, y), recorded in calls with the
\* arguments as they are handed over, then the error and emit tests
comparePair(s0, x, y) ==
  LET s == [s0 EXCEPT !.calls = Append(@, <<x, y>>)] IN
  IF comparor # "none"
  THEN LET areEqual == tryCatch(Comparor(comparor, x, y))
           s1 == IF areEqual.isErrorObject THEN destError(s, areEqual.e) ELSE s
       IN IF ~Truthy(areEqual) THEN emit(s1, FALSE) ELSE s1
  ELSE IF ~(x = y) THEN emit(s, FALSE) ELSE s

\* SequenceEqualSubscriber.checkValues(): the loop goes on while both buffers
\* hold a value (an exception escaping from the body would leave it)
RECURSIVE checkValues(_)
checkValues(s) ==
  IF Len(s.a) > 0 /\ Len(s.b) > 0 /\ ~s.thrown
  THEN LET x == Head(s.a)
           y == Head(s.b)
       IN checkValues(comparePair([s EXCEPT !.a = Tail(@), !.b = Tail(@)], x, y))
  ELSE s

\* SequenceEqualSubscriber._next(value)
_next(s, value) ==
  IF s.oneComplete /\ Len(s.b) = 0
  THEN emit(s, FALSE)
  ELSE checkValues([s EXCEPT !.a = Append(@, value)])

\* (variants of _complete: no length check; no wait for the second completion)
_completeNoLengthCheck(s) ==
  IF s.oneComplete THEN emit(s, TRUE) ELSE [s EXCEPT !.oneComplete = TRUE]
_completeEager(s) == emit(s, Len(s.a) = 0 /\ Len(s.b) = 0)

\* (variant of _complete: the length check looks at _a only)
_completeChecksOnlyA(s) ==
  IF s.oneComplete THEN emit(s, Len(s.a) = 0) ELSE [s EXCEPT !.oneComplete = TRUE]

\* SequenceEqualSubscriber._complete()
_complete(s) ==
  IF s.oneComplete
  THEN emit(s, Len(s.a) = 0 /\ Len(s.b) = 0)
  ELSE [s EXCEPT !.oneComplete = TRUE]

\* (variants of nextB: the test looks at its own buffer; the drain is left out)
nextBChecksOwnBuffer(s, value) ==
  IF s.oneComplete /\ Len(s.b) = 0
  THEN emit(s, FALSE)
  ELSE checkValues([s EXCEPT !.b = Append(@, value)])
nextBNoCheck(s, value) ==
  IF s.oneComplete /\ Len(s.a) = 0
  THEN emit(s, FALSE)
  ELSE [s EXCEPT !.b = Append(@, value)]

\* SequenceEqualSubscriber.nextB(value)
nextB(s, value) ==
  IF s.oneComplete /\ Len(s.a) = 0
  THEN emit(s, FALSE)
  ELSE checkValues([s EXCEPT !.b = Append(@, value)])

\* Subscriber.next / error / complete of the SequenceEqualSubscriber, as the
\* primary source (or the compareTo subscriber, for error) calls them
next(s, value) == IF s.isStopped THEN s ELSE _next(s, value)

error(s, err) ==
  IF s.isStopped THEN s
  ELSE unsubscribe(destError([s EXCEPT !.isStopped = TRUE], err))

complete(s) ==
  IF s.isStopped THEN s
  ELSE _complete([s EXCEPT !.isStopped = TRUE, !.runsA = @ + 1])

\* (variant of the compareTo subscriber: a bare observer with no stopped state)
cmpNextUnguarded(s, value) == nextB(s, value)

\* (variant of the compareTo subscriber: every complete() of compareTo
\* reaches parent._complete())
cmpCompleteUnguarded(s) ==
  _complete([s EXCEPT !.cmpStopped = TRUE, !.runsB = @ + 1])

\* ---- SequenceEqualCompareToSubscriber, as compareTo calls it
cmpNext(s, value) == IF s.cmpStopped THEN s ELSE nextB(s, value)

cmpError(s, err) ==
  IF s.cmpStopped THEN s ELSE error([s EXCEPT !.cmpStopped = TRUE], err)

cmpComplete(s) ==
  IF s.cmpStopped THEN s
  ELSE _complete([s EXCEPT !.cmpStopped = TRUE, !.runsB = @ + 1])

\* ---- what the sources have delivered (history, not program state)
Emitted(src, v) ==
  IF src.term = "open" THEN [src EXCEPT !.vals = Append(@, v)] ELSE src
Terminated(src, t) ==
  IF src.term = "open" THEN [src EXCEPT !.term = t] ELSE src
MayEmit(src) == src.term # "open" \/ Len(src.vals) < MaxLen

ArrivesA(s, v) ==
  [s EXCEPT !.srcA = Emitted(@, v),
            !.orphan = @ \/ (s.srcA.term = "open" /\ s.srcB.term = "complete"
                             /\ Len(s.b) = 0)]
ArrivesB(s, v) ==
  [s EXCEPT !.srcB = Emitted(@, v),
            !.orphan = @ \/ (s.srcB.term = "open" /\ s.srcA.term = "complete"
                             /\ Len(s.a) = 0)]

\* ---- the fields _a, _b and _oneComplete of subscription i
\* (variant: the fields are initialised once and shared by every instance)
fieldsShared(i) == 1

\* the field initialisers run in every `new SequenceEqualSubscriber`: each
\* instance, one per call of SequenceEqualOperator.call, owns its fields
fieldsOf(i) == i

\* the subscriptions after subscription i has moved to state s: a write to
\* the fields of i is seen by every subscription that has the same fields
Store(i, s) ==
  [j \in DOMAIN subs |->
     IF j = i THEN s
     ELSE IF fieldsOf(j) = fieldsOf(i)
          THEN [subs[j] EXCEPT !.a = s.a, !.b = s.b, !.oneComplete = s.oneComplete]
          ELSE subs[j]]

\* ---------------------------------------------------------------- actions
\* what a subscription's sources have delivered so far
Delivered(s) ==
  Len(s.srcA.vals) + Len(s.srcB.vals)
    + (IF s.srcA.term = "open" THEN 0 ELSE 1) + (IF s.srcB.term = "open" THEN 0 ELSE 1)
\* two subscriptions side by side share a budget of MaxTwo notifications
WithinBudget ==
  DOMAIN subs = {1, 2} => Delivered(subs[1]) + Delivered(subs[2]) < MaxTwo

\* (variant: the primary source is subscribed before compareTo)
PrimarySubscribedEarly(s) == TRUE

\* source._subscribe(new SequenceEqualSubscriber(...)): the primary source
\* is subscribed once the constructor, and with it compareTo.subscribe(),
\* has returned
PrimarySubscribed(s) == s.phase = "live"

\* SequenceEqualOperator.call: the constructor returns from
\* compareTo.subscribe(), adds the compareTo subscriber to its own
\* subscription, and the primary source is subscribed.
SubscribeSource(i) ==
  /\ subs[i].phase = "ctor"
  /\ subs' = Store(i,
       LET s == subs[i]
           s1 == IF s.closed THEN cmpUnsubscribe(s) ELSE [s EXCEPT !.cmpAdded = TRUE]
       IN [s1 EXCEPT !.phase = "live"])
  /\ UNCHANGED <<comparor, flt, predicate>>

PrimaryNext(i, v) ==
  /\ PrimarySubscribed(subs[i])
  /\ MayEmit(subs[i].srcA) /\ WithinBudget
  /\ subs' = Store(i, next(ArrivesA(subs[i], v), v))
  /\ UNCHANGED <<comparor, flt, predicate>>

PrimaryError(i, e) ==
  /\ PrimarySubscribed(subs[i]) /\ WithinBudget
  /\ subs' = Store(i, error([subs[i] EXCEPT !.srcA = Terminated(@, e)], e))
  /\ UNCHANGED <<comparor, flt, predicate>>

PrimaryComplete(i) ==
  /\ PrimarySubscribed(subs[i]) /\ WithinBudget
  /\ subs' = Store(i, complete([subs[i] EXCEPT !.srcA = Terminated(@, "complete")]))
  /\ UNCHANGED <<comparor, flt, predicate>>

CompareToNext(i, v) ==
  /\ MayEmit(subs[i].srcB) /\ WithinBudget
  /\ subs' = Store(i, cmpNext(ArrivesB(subs[i], v), v))
  /\ UNCHANGED <<comparor, flt, predicate>>

CompareToError(i, e) ==
  /\ WithinBudget
  /\ subs' = Store(i, cmpError([subs[i] EXCEPT !.srcB = Terminated(@, e)], e))
  /\ UNCHANGED <<comparor, flt, predicate>>

CompareToComplete(i) ==
  /\ WithinBudget
  /\ subs' = Store(i, cmpComplete([subs[i] EXCEPT !.srcB = Terminated(@, "complete")]))
  /\ UNCHANGED <<comparor, flt, predicate>>

\* the consumer unsubscribes the subscription that subscribe() returned
Unsubscribe(i) ==
  /\ subs[i].phase = "live"
  /\ subs' = Store(i, destUnsubscribe([subs[i] EXCEPT !.unsubscribed = TRUE]))
  /\ UNCHANGED <<comparor, flt, predicate>>

\* ------------------------------------------------------------------ filter
\* The user predicate, as a function of (value, index): "odd" passes the odd
\* values, "evenIndex" the values at even indices; it raises at index raiseAt
\* (never, when raiseAt is -1).
Predicates ==
  [test : {"odd", "evenIndex"}, raiseAt : {-1} \cup (0..(MaxLen - 1))]

Predicate(p, value, index) ==
  IF index = p.raiseAt THEN Raises(Raised)
  ELSE Returns(IF p.test = "odd" THEN value % 2 = 1 ELSE index % 2 = 0)

\* State after `new FilterSubscriber(...)`
NewFilterSubscriber(h) ==
  [ count |-> 0,
    isStopped |-> FALSE, closed |-> FALSE,            \* FilterSubscriber
    destStopped |-> FALSE, destClosed |-> FALSE,      \* the downstream Subscriber
    handler |-> h,
    out |-> <<>>,                                     \* what the observer received
    calls |-> <<>>,                                   \* (value, index) the predicate was called on
    src |-> NewSource,                                \* what the source has delivered
    unsubscribed |-> FALSE,
    thrown |-> FALSE ]

\* FilterSubscriber.unsubscribe()
filterUnsubscribe(f) ==
  IF f.closed THEN f ELSE [f EXCEPT !.isStopped = TRUE, !.closed = TRUE]

\* destination.unsubscribe(): the FilterSubscriber registered itself with the
\* destination in its constructor
filterDestUnsubscribe(f) ==
  IF f.destClosed THEN f
  ELSE filterUnsubscribe([f EXCEPT !.destStopped = TRUE, !.destClosed = TRUE])

filterDestNext(f, v) ==
  IF f.destStopped THEN f
  ELSE LET f1 == [f EXCEPT !.out = Append(@, NextN(v))]
       IN IF f1.handler = "unsub"
          THEN filterDestUnsubscribe([f1 EXCEPT !.unsubscribed = TRUE])
          ELSE f1

filterDestError(f, e) ==
  IF f.destStopped THEN f
  ELSE filterDestUnsubscribe([f EXCEPT !.destStopped = TRUE, !.out = Append(@, ErrorN(e))])

filterDestComplete(f) ==
  IF f.destStopped THEN f
  ELSE filterDestUnsubscribe([f EXCEPT !.destStopped = TRUE, !.out = Append(@, CompleteN)])

\* (variants of FilterSubscriber._next: the test is negated; there is no
\* try/catch, so what the predicate raises escapes to the source)
FilterSubscriber_nextNegated(f, value) ==
  LET r == Predicate(predicate, value, f.count)
      f1 == [f EXCEPT !.count = @ + 1, !.calls = Append(@, <<value, f.count>>)]
  IN IF r.raised THEN filterDestError(f1, r.err)
     ELSE IF ~r.val THEN filterDestNext(f1, value) ELSE f1

FilterSubscriber_nextUnprotected(f, value) ==
  LET r == Predicate(predicate, value, f.count)
      f1 == [f EXCEPT !.count = @ + 1, !.calls = Append(@, <<value, f.count>>)]
  IN IF r.raised THEN [f1 EXCEPT !.thrown = TRUE]
     ELSE IF r.val THEN filterDestNext(f1, value) ELSE f1

\* (variant: the counter advances only for the values that pass)
FilterSubscriber_nextCountsPassing(f, value) ==
  LET r == Predicate(predicate, value, f.count)
      f1 == [f EXCEPT !.calls = Append(@, <<value, f.count>>)]
  IN IF r.raised THEN filterDestError(f1, r.err)
     ELSE IF r.val THEN filterDestNext([f1 EXCEPT !.count = @ + 1], value) ELSE f1

\* FilterSubscriber._next(value): the predicate is called with (value,
\* count++); the catch block forwards the raised value and returns
FilterSubscriber_next(f, value) ==
  LET r == Predicate(predicate, value, f.count)
      f1 == [f EXCEPT !.count = @ + 1, !.calls = Append(@, <<value, f.count>>)]
  IN IF r.raised THEN filterDestError(f1, r.err)
     ELSE IF r.val THEN filterDestNext(f1, value) ELSE f1

\* Subscriber.next / error / complete of the FilterSubscriber (error and
\* complete are not overridden)
filterNext(f, value) == IF f.isStopped THEN f ELSE FilterSubscriber_next(f, value)

filterError(f, err) ==
  IF f.isStopped THEN f
  ELSE filterUnsubscribe(filterDestError([f EXCEPT !.isStopped = TRUE], err))

filterComplete(f) ==
  IF f.isStopped THEN f
  ELSE filterUnsubscribe(filterDestComplete([f EXCEPT !.isStopped = TRUE]))

SourceNext(v) ==
  /\ MayEmit(flt.src)
  /\ flt' = filterNext([flt EXCEPT !.src = Emitted(@, v)], v)
  /\ UNCHANGED <<subs, comparor, predicate>>

SourceError(e) ==
  /\ flt' = filterError([flt EXCEPT !.src = Terminated(@, e)], e)
  /\ UNCHANGED <<subs, comparor, predicate>>

SourceComplete ==
  /\ flt' = filterComplete([flt EXCEPT !.src = Terminated(@, "complete")])
  /\ UNCHANGED <<subs, comparor, predicate>>

FilterUnsubscribe ==
  /\ flt' = filterDestUnsubscribe([flt EXCEPT !.unsubscribed = TRUE])
  /\ UNCHANGED <<subs, comparor, predicate>>

\* -------------------------------------------------------- specifications
\* Spec: one subscription to a sequenceEqual observable
Init ==
  /\ comparor \in Comparors
  /\ subs \in [{1} -> {NewSubscriber(h) : h \in Handlers}]
  /\ flt = NewFilterSubscriber("keep")
  /\ predicate = [test |-> "odd", raiseAt |-> -1]

Next ==
  \/ \E i \in DOMAIN subs : SubscribeSource(i)
  \/ \E i \in DOMAIN subs : \E v \in Values : PrimaryNext(i, v)
  \/ \E i \in DOMAIN subs : \E e \in ErrVals : PrimaryError(i, e)
  \/ \E i \in DOMAIN subs : PrimaryComplete(i)
  \/ \E i \in DOMAIN subs : \E v \in Values : CompareToNext(i, v)
  \/ \E i \in DOMAIN subs : \E e \in ErrVals : CompareToError(i, e)
  \/ \E i \in DOMAIN subs : CompareToComplete(i)
  \/ \E i \in DOMAIN subs : Unsubscribe(i)

Spec == Init /\ [][Next]_vars

\* TwoSpec: two subscriptions to one sequenceEqual observable (one operator,
\* one comparor), their notifications interleaved in any way
TwoInit ==
  /\ comparor = "none"
  /\ subs = [i \in {1, 2} |-> NewSubscriber("keep")]
  /\ flt = NewFilterSubscriber("keep")
  /\ predicate = [test |-> "odd", raiseAt |-> -1]

TwoSpec == TwoInit /\ [][Next]_vars

\* FilterSpec: one subscription to a filter observable
FilterInit ==
  /\ comparor = "none"
  /\ subs = <<>>
  /\ flt \in {NewFilterSubscriber(h) : h \in Handlers}
  /\ predicate \in Predicates

FilterNext ==
  \/ \E v \in Values : SourceNext(v)
  \/ \E e \in ErrVals : SourceError(e)
  \/ SourceComplete
  \/ FilterUnsubscribe

FilterSpec == FilterInit /\ [][FilterNext]_vars

\* ================================================================ claims
Booleans(out) == {k \in 1..Len(out) : out[k].kind = "next"}
\* the two logical sequences are equal: same length, pairwise equal
SameSequence(A, B) == Len(A) = Len(B) /\ \A k \in 1..Len(A) : A[k] = B[k]
\* the consumer only listens: it never unsubscribes, in a handler or outside
Listening(s) == ~s.unsubscribed /\ s.handler = "keep"
BothCompleted(s) == s.srcA.term = "complete" /\ s.srcB.term = "complete"
ErrorSeen(s) == s.srcA.term \in ErrVals \/ s.srcB.term \in ErrVals
RaisesOn(p) == comparor # "none" /\ Comparor(comparor, p[1], p[2]).raised
EqualOn(p) == IF comparor = "none" THEN p[1] = p[2]
              ELSE LET r == Comparor(comparor, p[1], p[2]) IN ~r.raised /\ r.val
DecidedFalse(s) == Len(s.out) > 0 /\ s.out[1].kind = "next" /\ ~s.out[1].val

\* C1: once both sources have delivered their whole sequence and completed
\* (no error, a comparator that does not raise, a consumer that stays
\* subscribed), the observer has received exactly one boolean followed by
\* complete, and the boolean is true iff the two sequences have the same
\* length and are pairwise equal -- whatever the interleaving was.
C1_ResultIsSequenceEquality ==
  \A i \in DOMAIN subs :
    LET s == subs[i] IN
      (BothCompleted(s) /\ Listening(s) /\ comparor # "raises")
        => s.out = <<NextN(SameSequence(s.srcA.vals, s.srcB.vals)), CompleteN>>

C1_Witness ==
  \E i \in DOMAIN subs :
    LET s == subs[i] IN
      /\ BothCompleted(s) /\ Listening(s) /\ comparor = "none"
      /\ s.srcA.vals = <<1, 2, 1>> /\ s.srcB.vals = <<1, 2, 1>>
      /\ s.out = <<NextN(TRUE), CompleteN>>

\* C2: the observer receives nothing, or one boolean immediately followed by
\* complete, or one error and no boolean: never a second boolean, never both
\* error and complete, nothing after a terminal notification.  (The one run
\* in which a boolean is not followed by complete is the observer
\* unsubscribing from inside its own next handler.)
C2_OneResultOrOneError ==
  \A i \in DOMAIN subs :
    LET s == subs[i]
        out == s.out
    IN /\ Cardinality(Booleans(out)) <= 1
       /\ \A k \in 1..Len(out) :
            /\ out[k].kind \in {"error", "complete"} => k = Len(out)
            /\ out[k].kind = "error" => k = 1
            /\ out[k].kind = "complete" => (k = 2 /\ out[1].kind = "next")
            /\ out[k].kind = "next" =>
                 (s.handler = "keep" => (Len(out) = k + 1 /\ out[k + 1] = CompleteN))

C2_Witness ==
  \E i \in DOMAIN subs :
    LET s == subs[i] IN
      /\ s.out = <<NextN(FALSE), CompleteN>>
      /\ Len(s.calls) = 1 /\ s.a = <<>> /\ s.b = <<>>
      /\ Len(s.srcA.vals) = 3 /\ s.srcB.term \in ErrVals

\* C3: an error notification of either source, delivered while nothing has
\* been delivered downstream (and the consumer is still subscribed), is
\* delivered downstream as that same error in the same step, and the
\* coordinator is stopped.
C3_SourceErrorForwarded ==
  [][\A i \in DOMAIN subs : \A e \in ErrVals :
       LET s == subs[i]
           t == subs'[i]
       IN (/\ \/ (s.srcA.term = "open" /\ t.srcA.term = e)
              \/ (s.srcB.term = "open" /\ t.srcB.term = e)
           /\ s.out = <<>>
           /\ ~s.unsubscribed)
          => (t.out = <<ErrorN(e)>> /\ t.isStopped)]_vars

\* C4: once the comparator has raised on a pair, the observer has received
\* exactly the raised value as an error and no boolean, and no exception has
\* escaped to the source that delivered the value.
C4_ComparatorFaultIsError ==
  \A i \in DOMAIN subs :
    LET s == subs[i] IN
      (\E k \in 1..Len(s.calls) : RaisesOn(s.calls[k]))
        => (s.out = <<ErrorN(Raised)>> /\ ~s.thrown)

C4_Witness ==
  \E i \in DOMAIN subs :
    LET s == subs[i] IN
      /\ Len(s.calls) = 2 /\ RaisesOn(s.calls[2])
      /\ Len(s.srcA.vals) = 3 /\ Len(s.srcB.vals) = 3
      /\ s.out = <<ErrorN(Raised)>>

\* C5: once false has been emitted, equality is never evaluated again; an
\* unequal pair is the last pair ever evaluated, and no step evaluates more
\* than one pair.
C5_NoEvaluationAfterFalse ==
  [][\A i \in DOMAIN subs :
       LET s == subs[i]
           t == subs'[i]
       IN /\ DecidedFalse(s) => t.calls = s.calls
          /\ \A k \in 1..(Len(t.calls) - 1) : EqualOn(t.calls[k])
          /\ Len(t.calls) <= Len(s.calls) + 1]_vars

C5_Witness ==
  \E i \in DOMAIN subs :
    LET s == subs[i] IN
      /\ DecidedFalse(s)
      /\ Len(s.calls) = 1 /\ ~EqualOn(s.calls[1])
      /\ Len(s.a) = 2
      /\ Len(s.srcB.vals) = 3

\* C6: while at most one source has completed, every compared pair was equal,
\* no value arrived after the other side completed with an empty buffer and
\* no error occurred, nothing has been delivered downstream; true is never
\* emitted before both sources have completed.
C6_PendingUntilDecided ==
  \A i \in DOMAIN subs :
    LET s == subs[i] IN
      /\ (/\ ~BothCompleted(s)
          /\ \A k \in 1..Len(s.calls) : EqualOn(s.calls[k])
          /\ ~s.orphan
          /\ ~ErrorSeen(s))
         => s.out = <<>>
      /\ (\E k \in 1..Len(s.out) : s.out[k] = NextN(TRUE)) => BothCompleted(s)

C6_Witness ==
  \E i \in DOMAIN subs :
    LET s == subs[i] IN
      /\ s.srcB.term = "complete" /\ s.srcA.term = "open"
      /\ Len(s.calls) = 2 /\ Len(s.b) = 1
      /\ Listening(s)
      /\ s.out = <<>>

\* C7: the step in which the consumer unsubscribes closes the primary-side
\* and the compareTo-side subscriber; from then on no step changes a
\* buffer, the completion flag, the evaluated pairs or what the observer
\* received (a reentrant unsubscribe leaves the value being delivered as
\* the last notification), and a repeated unsubscribe changes nothing.
C7_UnsubscribeClosesBoth ==
  [][\A i \in DOMAIN subs :
       LET s == subs[i]
           t == subs'[i]
       IN /\ t.unsubscribed =>
               (t.closed /\ t.cmpClosed /\ t.isStopped /\ t.cmpStopped)
          /\ s.unsubscribed =>
               (/\ t.a = s.a /\ t.b = s.b /\ t.oneComplete = s.oneComplete
                /\ t.out = s.out /\ t.calls = s.calls)
          /\ (t.unsubscribed /\ ~s.unsubscribed /\ t.out # s.out) =>
               (/\ Len(t.out) = Len(s.out) + 1
                /\ t.out[Len(t.out)].kind = "next")]_vars

C7_Witness ==
  \E i \in DOMAIN subs :
    LET s == subs[i] IN
      /\ s.unsubscribed /\ s.handler = "unsub"
      /\ Len(s.out) = 1
      /\ Len(s.calls) = 1 /\ s.a = <<>> /\ s.b = <<>>
      /\ Len(s.srcA.vals) = 3 /\ Len(s.srcB.vals) = 3

\* what a filter with predicate p forwards of the values vals, the first of
\* which has index idx
RECURSIVE Passing(_, _, _)
Passing(p, vals, idx) ==
  IF vals = <<>> THEN <<>>
  ELSE LET r == Predicate(p, Head(vals), idx)
           rest == Passing(p, Tail(vals), idx + 1)
       IN IF ~r.raised /\ r.val THEN <<NextN(Head(vals))>> \o rest ELSE rest

TerminalOf(src) ==
  IF src.term = "complete" THEN <<CompleteN>>
  ELSE IF src.term \in ErrVals THEN <<ErrorN(src.term)>>
  ELSE <<>>

\* C8: with a predicate that does not raise and a consumer that stays
\* subscribed, after every step the observer has received exactly the source
\* values for which the predicate is truthy, unchanged and in order, followed
\* by the source's own terminal notification if it has delivered one.
C8_FilterSelectsInOrder ==
  (predicate.raiseAt = -1 /\ ~flt.unsubscribed /\ flt.handler = "keep")
    => flt.out = Passing(predicate, flt.src.vals, 0) \o TerminalOf(flt.src)

C8_Witness ==
  /\ predicate = [test |-> "odd", raiseAt |-> -1]
  /\ flt.src.vals = <<1, 2, 1>> /\ flt.src.term = "e2"
  /\ flt.out = <<NextN(1), NextN(1), ErrorN("e2")>>

\* C9: once the predicate has raised, at its call of index k, the observer has
\* received the passing values among the k values before it, then the raised
\* value as an error and nothing more; the subscriber is stopped, the
\* predicate has been called k + 1 times and the counter stays at k + 1.
C9_PredicateFaultStops ==
  LET k == predicate.raiseAt IN
    (\E j \in 1..Len(flt.calls) : Predicate(predicate, flt.calls[j][1], flt.calls[j][2]).raised)
      => /\ flt.out = Passing(predicate, SubSeq(flt.src.vals, 1, k), 0) \o <<ErrorN(Raised)>>
         /\ flt.isStopped
         /\ Len(flt.calls) = k + 1
         /\ flt.count = k + 1
         /\ ~flt.thrown

C9_Witness ==
  /\ predicate = [test |-> "odd", raiseAt |-> 1]
  /\ flt.src.vals = <<1, 1, 1>> /\ flt.src.term = "complete"
  /\ flt.out = <<NextN(1), ErrorN(Raised)>>
  /\ flt.count = 2

\* what a subscription running alone delivers, when it has delivered
\* something: decided by its own history only
Alone(s) ==
  /\ (BothCompleted(s) /\ ~s.unsubscribed /\ comparor # "raises")
       => s.out = <<NextN(SameSequence(s.srcA.vals, s.srcB.vals)), CompleteN>>
  /\ Len(s.a) + Len(s.calls) <= Len(s.srcA.vals)
  /\ Len(s.b) + Len(s.calls) <= Len(s.srcB.vals)
  /\ s.oneComplete => (s.srcA.term = "complete" \/ s.srcB.term = "complete")

\* C10: of two subscriptions to the same sequenceEqual observable, a step
\* changes the state (buffers, flag, output) of at most one, and each
\* subscription's buffers, flag and result are those its own two sources
\* account for.
C10_SubscriptionsAreSeparate ==
  [][\A i, j \in DOMAIN subs :
       /\ (i # j /\ subs'[i] # subs[i]) => subs'[j] = subs[j]
       /\ Alone(subs'[i])]_vars

C10_Witness ==
  /\ DOMAIN subs = {1, 2}
  /\ subs[1].calls = <<<<1, 1>>>> /\ subs[1].a = <<>> /\ subs[1].b = <<>>
  /\ ~subs[1].oneComplete
  /\ subs[2].a = <<2>> /\ subs[2].oneComplete
  /\ subs[2].calls = <<>>

Errored(s) == Len(s.out) > 0 /\ s.out[Len(s.out)].kind = "error"

\* C11: the step that delivers an error downstream (from the primary source,
\* from compareTo or from a raising comparator) leaves the primary-side
\* coordinator and the compareTo-side subscriber unsubscribed; after it no
\* step evaluates a pair or changes a buffer, the completion flag or the
\* output.
C11_ErrorTearsDownBoth ==
  [][\A i \in DOMAIN subs :
       LET s == subs[i]
           t == subs'[i]
       IN /\ Errored(t) =>
               (t.closed /\ t.cmpClosed /\ t.isStopped /\ t.cmpStopped /\ t.destClosed)
          /\ Errored(s) =>
               (/\ t.a = s.a /\ t.b = s.b /\ t.oneComplete = s.oneComplete
                /\ t.calls = s.calls /\ t.out = s.out)]_vars

C11_Witness ==
  \E i \in DOMAIN subs :
    LET s == subs[i] IN
      /\ s.out = <<ErrorN("e2")>> /\ s.srcB.term = "e2"
      /\ s.closed /\ s.cmpClosed
      /\ Len(s.a) = 1 /\ s.calls = <<>>
      /\ Len(s.srcA.vals) = 3

\* a value of the primary source (of compareTo) is delivered in this step to
\* a subscription that has decided nothing and is still subscribed
Undecided(s) == s.out = <<>> /\ ~s.unsubscribed
ValueFromA(s, t) == s.srcA.term = "open" /\ Len(t.srcA.vals) = Len(s.srcA.vals) + 1
ValueFromB(s, t) == s.srcB.term = "open" /\ Len(t.srcB.vals) = Len(s.srcB.vals) + 1
\* false and complete, as far as the observer lets the coordinator deliver them
FalseAndComplete(s) ==
  IF s.handler = "keep" THEN <<NextN(FALSE), CompleteN>> ELSE <<NextN(FALSE)>>
\* the buffers and evaluated pairs after own \o <<v>> and other were drained
Drained(own, other, pairs, first, v, t_own, t_other, t_calls) ==
  IF other = <<>>
  THEN t_own = Append(own, v) /\ t_other = other /\ t_calls = pairs
  ELSE /\ t_own = Tail(Append(own, v)) /\ t_other = Tail(other)
       /\ t_calls = Append(pairs, IF first THEN <<Head(Append(own, v)), Head(other)>>
                                  ELSE <<Head(other), Head(Append(own, v))>>)

\* C12: a primary value arriving when compareTo has completed and the
\* compareTo buffer is empty makes the coordinator emit false and complete
\* in that step, without buffering the value or evaluating equality, and a
\* compareTo value arriving when the primary has completed and the primary
\* buffer is empty does the same; in every other undecided state the value
\* is appended to its own side's buffer and the buffers are drained.
C12_OrphanValueEmitsFalse ==
  [][\A i \in DOMAIN subs :
       LET s == subs[i]
           t == subs'[i]
       IN /\ (Undecided(s) /\ ValueFromA(s, t)) =>
               LET v == t.srcA.vals[Len(t.srcA.vals)] IN
                 IF s.srcB.term = "complete" /\ s.b = <<>>
                 THEN /\ t.out = FalseAndComplete(s)
                      /\ t.a = s.a /\ t.b = s.b /\ t.calls = s.calls
                 ELSE Drained(s.a, s.b, s.calls, TRUE, v, t.a, t.b, t.calls)
          /\ (Undecided(s) /\ ValueFromB(s, t)) =>
               LET v == t.srcB.vals[Len(t.srcB.vals)] IN
                 IF s.srcA.term = "complete" /\ s.a = <<>>
                 THEN /\ t.out = FalseAndComplete(s)
                      /\ t.a = s.a /\ t.b = s.b /\ t.calls = s.calls
                 ELSE Drained(s.b, s.a, s.calls, FALSE, v, t.b, t.a, t.calls)]_vars

C12_Witness ==
  \E i \in DOMAIN subs :
    LET s == subs[i] IN
      /\ s.srcA.term = "complete" /\ s.srcB.term = "open"
      /\ s.srcA.vals = <<1>> /\ s.srcB.vals = <<1, 1>>
      /\ s.calls = <<<<1, 1>>>> /\ s.a = <<>> /\ s.b = <<>>
      /\ s.out = <<NextN(FALSE), CompleteN>>

CompletionOfA(s, t) == s.srcA.term = "open" /\ t.srcA.term = "complete"
CompletionOfB(s, t) == s.srcB.term = "open" /\ t.srcB.term = "complete"
HasTrue(out) == \E k \in 1..Len(out) : out[k] = NextN(TRUE)

\* C13: the first completion, of either source, emits nothing and leaves
\* both buffers unchanged; the second completion, if nothing was decided
\* before, emits exactly one boolean, true iff both buffers are empty at
\* that moment, followed by complete.  No other step runs the length
\* check: true is emitted by no step but a second completion.
C13_LengthCheckAtSecondCompletion ==
  [][\A i \in DOMAIN subs :
       LET s == subs[i]
           t == subs'[i]
           other == IF CompletionOfA(s, t) THEN s.srcB.term ELSE s.srcA.term
           result == NextN(s.a = <<>> /\ s.b = <<>>)
       IN /\ (Undecided(s) /\ (CompletionOfA(s, t) \/ CompletionOfB(s, t))) =>
               IF other = "complete"
               THEN /\ t.out = (IF s.handler = "keep" THEN <<result, CompleteN>>
                                ELSE <<result>>)
                    /\ t.a = s.a /\ t.b = s.b /\ t.calls = s.calls
               ELSE /\ t.out = <<>> /\ t.oneComplete /\ ~s.oneComplete
                    /\ t.a = s.a /\ t.b = s.b /\ t.calls = s.calls
          /\ (HasTrue(t.out) /\ ~HasTrue(s.out)) =>
               (/\ CompletionOfA(s, t) \/ CompletionOfB(s, t)
                /\ other = "complete")]_vars

C13_Witness ==
  \E i \in DOMAIN subs :
    LET s == subs[i] IN
      /\ s.srcA.term = "complete" /\ s.srcB.term = "complete"
      /\ s.srcA.vals = <<1, 2>> /\ s.srcB.vals = <<1, 2, 1>>
      /\ s.b = <<1>> /\ s.a = <<>> /\ Len(s.calls) = 2
      /\ s.out = <<NextN(FALSE), CompleteN>>

\* C14: the k-th evaluation of equality is on the k-th value the primary
\* source emitted, as first argument, and the k-th value compareTo emitted,
\* as second argument: no value is compared twice and none is skipped (as
\* long as nothing is decided, every pair both sources have emitted has
\* been evaluated).
C14_PairsInEmissionOrder ==
  \A i \in DOMAIN subs :
    LET s == subs[i] IN
      /\ Len(s.calls) <= Len(s.srcA.vals) /\ Len(s.calls) <= Len(s.srcB.vals)
      /\ \A k \in 1..Len(s.calls) : s.calls[k] = <<s.srcA.vals[k], s.srcB.vals[k]>>
      /\ Undecided(s) =>
           Len(s.calls) = (IF Len(s.srcA.vals) <= Len(s.srcB.vals)
                           THEN Len(s.srcA.vals) ELSE Len(s.srcB.vals))

C14_Witness ==
  \E i \in DOMAIN subs :
    LET s == subs[i] IN
      /\ s.srcA.vals = <<1, 2, 2>> /\ s.srcB.vals = <<1, 2, 1>>
      /\ s.calls = <<<<1, 1>>, <<2, 2>>, <<2, 1>>>>
      /\ comparor = "raises"
      /\ s.out = <<ErrorN(Raised)>>

\* C15: within one filter subscription the k-th invocation of the predicate
\* (k = 0, 1, 2, ...) receives the k-th value the source emitted together
\* with index k; the counter starts at 0 and advances by exactly one per
\* handled source value, forwarded or dropped, and as long as the subscriber
\* is not stopped every source value has been handed to the predicate.
C15_IndexCountsSourceValues ==
  /\ Len(flt.calls) <= Len(flt.src.vals)
  /\ \A k \in 1..Len(flt.calls) : flt.calls[k] = <<flt.src.vals[k], k - 1>>
  /\ flt.count = Len(flt.calls)
  /\ ~flt.isStopped => Len(flt.calls) = Len(flt.src.vals)

\* three values of which the second is dropped; the third is called with index 2
C15_Witness ==
  /\ predicate = [test |-> "odd", raiseAt |-> -1]
  /\ flt.src.vals = <<1, 2, 1>>
  /\ flt.calls = <<<<1, 0>>, <<2, 1>>, <<1, 2>>>>
  /\ flt.out = <<NextN(1), NextN(1)>>
  /\ flt.count = 3

\* C16: compareTo is subscribed before the primary source.  As long as the
\* constructor (and with it compareTo.subscribe()) has not returned, the
\* primary source has delivered nothing, while everything compareTo has
\* delivered so far is already handled by the coordinator: its values are
\* buffered in _b, its completion is recorded in _oneComplete, its error has
\* reached the observer.
C16_CompareToSubscribedFirst ==
  \A i \in DOMAIN subs :
    LET s == subs[i] IN
      s.phase = "ctor" =>
        /\ s.srcA = NewSource
        /\ s.a = <<>> /\ s.calls = <<>>
        /\ s.b = s.srcB.vals
        /\ s.oneComplete <=> s.srcB.term = "complete"
        /\ s.cmpStopped <=> s.srcB.term # "open"
        /\ s.srcB.term \in {"open", "complete"} => s.out = <<>>
        /\ s.srcB.term \in ErrVals => s.out = <<ErrorN(s.srcB.term)>>

\* a synchronous compareTo has emitted two values and completed, and the
\* primary source is not subscribed yet
C16_Witness ==
  \E i \in DOMAIN subs :
    LET s == subs[i] IN
      /\ s.phase = "ctor"
      /\ s.srcB = [vals |-> <<1, 2>>, term |-> "complete"]
      /\ s.b = <<1, 2>> /\ s.oneComplete

\* C17: after every notification handled by the coordinator (a primary
\* value, a compareTo value, either completion) at least one of the buffers
\* _a and _b is empty; a step that delivers a value evaluates equality at
\* most once, and a step that delivers no value evaluates nothing.
C17_OneBufferEmpty ==
  [][\A i \in DOMAIN subs :
       LET s == subs[i]
           t == subs'[i]
       IN /\ t.a = <<>> \/ t.b = <<>>
          /\ Len(s.calls) <= Len(t.calls) /\ Len(t.calls) <= Len(s.calls) + 1
          /\ Len(t.calls) = Len(s.calls) + 1 =>
                /\ ValueFromA(s, t) \/ ValueFromB(s, t)
                /\ Len(s.a) + Len(s.b) = Len(t.a) + Len(t.b) + 1]_vars

\* one pair has been evaluated and the primary source is two values ahead
C17_Witness ==
  \E i \in DOMAIN subs :
    LET s == subs[i] IN
      /\ s.srcA.vals = <<1, 1, 2>> /\ s.srcB.vals = <<1>>
      /\ s.calls = <<<<1, 1>>>>
      /\ s.a = <<1, 2>> /\ s.b = <<>>

\* C18: the one flag _oneComplete is never read by the side that set it.
\* Whenever _next can run (the coordinator is not stopped) with _oneComplete
\* true, the flag was set by the completion of compareTo and the primary has
\* not completed; whenever nextB can run (the compareTo subscriber is not
\* stopped) with _oneComplete true, it was set by the completion of the
\* primary and compareTo has not completed; and _complete runs at most once
\* for each source, only for a source that has completed.
C18_FlagNamesTheOtherSide ==
  \A i \in DOMAIN subs :
    LET s == subs[i] IN
      /\ (s.oneComplete /\ ~s.isStopped) =>
            /\ s.srcB.term = "complete" /\ s.runsB = 1
            /\ s.srcA.term = "open" /\ s.runsA = 0
      /\ (s.oneComplete /\ ~s.cmpStopped) =>
            /\ s.srcA.term = "complete" /\ s.runsA = 1
            /\ s.srcB.term = "open" /\ s.runsB = 0
      /\ s.runsA <= 1 /\ s.runsB <= 1
      /\ s.runsA = 1 => s.srcA.term = "complete"
      /\ s.runsB = 1 => s.srcB.term = "complete"
      /\ s.oneComplete <=> s.runsA + s.runsB >= 1

\* compareTo has completed without a value, and _next has then run with the
\* flag set on the first primary value: it is _complete's run for compareTo
\* that the flag stands for, and false is emitted
C18_Witness ==
  \E i \in DOMAIN subs :
    LET s == subs[i] IN
      /\ s.srcB = [vals |-> <<>>, term |-> "complete"]
      /\ s.srcA = [vals |-> <<1>>, term |-> "open"]
      /\ s.orphan /\ s.oneComplete
      /\ s.runsA = 0 /\ s.runsB = 1
      /\ s.out = <<NextN(FALSE), CompleteN>>

============================================================================
